---- MODULE Spec2Model ----
(***************************************************************************)
(* A model of server.py: the double-submit CSRF guard, the fixed-window    *)
(* rate limiter configured for the routes, the three model-backed POST     *)
(* handlers with their extraction of JSON from the model's free text, and  *)
(* the page routes that issue the CSRF cookie.                             *)
(*                                                                         *)
(* A Python str is a sequence of symbols.  A symbol is one character, or   *)
(* one fixed run of characters (the words true, false, null, safe) that    *)
(* no operation of the program splits.  None is the one-symbol sequence    *)
(* <<"<None>">>, which no str of the model equals.                         *)
(***************************************************************************)
EXTENDS Integers, Sequences, FiniteSets, TLC

VARIABLES
    storage,          \* limiter's MemoryStorage: key -> [count, ttl]
    jar,              \* each client's csrf-token cookie (None when it has none)
    minted,           \* number of tokens _new_csrf_token has produced so far
    OPENAI_API_KEY,   \* TRUE when the environment configures an API key
    req,              \* the request the last step handled, with its response
    call              \* a single function call: its arguments and its result

vars == <<storage, jar, minted, OPENAI_API_KEY, req, call>>

None == <<"<None>">>

\* Python truthiness of an optional str: None and "" are falsy.
Truthy(s) == s # None /\ s # <<>>

\* a or b, on optional strs.
PyOr(a, b) == IF Truthy(a) THEN a ELSE b

Max(a, b) == IF a >= b THEN a ELSE b
Min(a, b) == IF a <= b THEN a ELSE b

\* All sequences over S of length 0..n.
SeqsUpTo(S, n) == UNION {[1..k -> S] : k \in 0..n}

(***************************************************************************)
(* CSRF guard                                                              *)
(***************************************************************************)
AsciiChars == {"a", "b"}
NonAsciiChars == {"U+00E9"}

IsAscii(s) == \A i \in 1..Len(s) : s[i] \notin NonAsciiChars

\* secrets.compare_digest on two strs: a TypeError when either holds a
\* non-ASCII character, else their equality.
compare_digest(a, b) ==
    IF IsAscii(a) /\ IsAscii(b)
    THEN [raised |-> FALSE, ret |-> (a = b)]
    ELSE [raised |-> TRUE, ret |-> FALSE]

\* A variant of verify_csrf that asks for the presence of both values only.
verify_csrf_presence_only(cookie_token, header_token) ==
    [raised |-> FALSE, ret |-> Truthy(cookie_token) /\ Truthy(header_token)]

\* verify_csrf, on the request's cookie and X-CSRF-Token header.
verify_csrf(cookie_token, header_token) ==
    IF ~Truthy(cookie_token) \/ ~Truthy(header_token)
    THEN [raised |-> FALSE, ret |-> FALSE]
    ELSE LET r == compare_digest(cookie_token, header_token)
         IN  IF r.raised
             THEN [raised |-> FALSE, ret |-> FALSE]
             ELSE [raised |-> FALSE, ret |-> r.ret]

\* _new_csrf_token: the n-th token the process mints.  Tokens are fresh:
\* distinct from each other and from every value a client made up.
TokenDigits == <<"1", "2", "3", "4", "5", "6", "7", "8", "9">>
_new_csrf_token(n) == <<"T", TokenDigits[n]>>

MaxTokLen == 2
MaxMint == 2
TokenValues == SeqsUpTo(AsciiChars \cup NonAsciiChars, MaxTokLen) \cup {None}


(***************************************************************************)
(* json.loads on a str.  Values are tagged with their Python type:         *)
(*   list  v = the elements         dict  v = <<[k, val], ...>>            *)
(*   str   v = the symbols          int   v = the digits                   *)
(*   bool  v = <<"true">> or <<"false">>     NoneType  v = <<>>            *)
(***************************************************************************)
JList(v) == [t |-> "list", v |-> v]
JDict(v) == [t |-> "dict", v |-> v]
JStr(v) == [t |-> "str", v |-> v]
JInt(v) == [t |-> "int", v |-> v]
JBool(b) == [t |-> "bool", v |-> <<IF b THEN "true" ELSE "false">>]
JNone == [t |-> "NoneType", v |-> <<>>]

Whitespace == {" "}
Digits == {"1"}
Quote == "\""

ParseFail == [ok |-> FALSE]
Parsed(val, next) == [ok |-> TRUE, val |-> val, next |-> next]

\* The first position at or after i that holds no whitespace (Len(s)+1 at the end).
RECURSIVE SkipWs(_, _)
SkipWs(s, i) ==
    IF i <= Len(s) /\ s[i] \in Whitespace THEN SkipWs(s, i + 1) ELSE i

\* The first position at or after i that holds symbol ch, 0 when there is none.
RECURSIVE IndexFrom(_, _, _)
IndexFrom(s, ch, i) ==
    IF i > Len(s) THEN 0
    ELSE IF s[i] = ch THEN i
    ELSE IndexFrom(s, ch, i + 1)

\* The first position at or after i that holds no digit.
RECURSIVE SkipDigits(_, _)
SkipDigits(s, i) ==
    IF i <= Len(s) /\ s[i] \in Digits THEN SkipDigits(s, i + 1) ELSE i

\* A dict with key k set to val: a repeated key keeps its place and takes the
\* last value.
DictSet(pairs, k, val) ==
    IF \E i \in 1..Len(pairs) : pairs[i].k = k
    THEN [i \in 1..Len(pairs) |->
             IF pairs[i].k = k THEN [k |-> k, val |-> val] ELSE pairs[i]]
    ELSE Append(pairs, [k |-> k, val |-> val])

StringTo(s, i, j) ==
    IF j = 0 THEN ParseFail ELSE Parsed(JStr(SubSeq(s, i + 1, j - 1)), j + 1)

\* The string literal whose opening quote is at position i.
ParseString(s, i) == StringTo(s, i, IndexFrom(s, Quote, i + 1))

NumberTo(s, i, j) == Parsed(JInt(SubSeq(s, i, j - 1)), j)

RECURSIVE ParseValue(_, _)
RECURSIVE ParseElems(_, _, _)
RECURSIVE ParseMembers(_, _, _)

\* After an element: a comma and the next element, or the closing bracket.
ElemSep(s, acc, j) ==
    IF j > Len(s) THEN ParseFail
    ELSE IF s[j] = "," THEN ParseElems(s, SkipWs(s, j + 1), acc)
    ELSE IF s[j] = "]" THEN Parsed(JList(acc), j + 1)
    ELSE ParseFail

ElemParsed(s, acc, r) ==
    IF ~r.ok THEN ParseFail
    ELSE ElemSep(s, Append(acc, r.val), SkipWs(s, r.next))

\* The elements of a list from position i on, after the elements acc.
ParseElems(s, i, acc) == ElemParsed(s, acc, ParseValue(s, i))

\* After a member: a comma and the next member, or the closing brace.
MemberSep(s, acc, j) ==
    IF j > Len(s) THEN ParseFail
    ELSE IF s[j] = "," THEN ParseMembers(s, SkipWs(s, j + 1), acc)
    ELSE IF s[j] = "}" THEN Parsed(JDict(acc), j + 1)
    ELSE ParseFail

MemberValue(s, acc, k, r) ==
    IF ~r.ok THEN ParseFail
    ELSE MemberSep(s, DictSet(acc, k, r.val), SkipWs(s, r.next))

MemberColon(s, acc, k, c) ==
    IF c > Len(s) \/ s[c] # ":" THEN ParseFail
    ELSE MemberValue(s, acc, k, ParseValue(s, SkipWs(s, c + 1)))

MemberKey(s, acc, key) ==
    IF ~key.ok THEN ParseFail
    ELSE MemberColon(s, acc, key.val.v, SkipWs(s, key.next))

\* The members of a dict from position i on, after the members acc.
ParseMembers(s, i, acc) ==
    IF i > Len(s) \/ s[i] # Quote THEN ParseFail
    ELSE MemberKey(s, acc, ParseString(s, i))

ListFrom(s, j) ==
    IF j <= Len(s) /\ s[j] = "]" THEN Parsed(JList(<<>>), j + 1)
    ELSE ParseElems(s, j, <<>>)

DictFrom(s, j) ==
    IF j <= Len(s) /\ s[j] = "}" THEN Parsed(JDict(<<>>), j + 1)
    ELSE ParseMembers(s, j, <<>>)

\* The value that starts at position i of s (i holds no whitespace).
ParseValue(s, i) ==
    IF i > Len(s) THEN ParseFail
    ELSE IF s[i] = "[" THEN ListFrom(s, SkipWs(s, i + 1))
    ELSE IF s[i] = "{" THEN DictFrom(s, SkipWs(s, i + 1))
    ELSE IF s[i] = Quote THEN ParseString(s, i)
    ELSE IF s[i] \in Digits THEN NumberTo(s, i, SkipDigits(s, i))
    ELSE IF s[i] = "true" THEN Parsed(JBool(TRUE), i + 1)
    ELSE IF s[i] = "false" THEN Parsed(JBool(FALSE), i + 1)
    ELSE IF s[i] = "null" THEN Parsed(JNone, i + 1)
    ELSE ParseFail

\* A parse stands for the whole text when only whitespace follows it.
WholeText(s, r) ==
    IF r.ok /\ SkipWs(s, r.next) = Len(s) + 1
    THEN [ok |-> TRUE, val |-> r.val]
    ELSE [ok |-> FALSE]

\* json.loads(s): [ok, val]; ok = FALSE is an exception.  A content that is
\* not a str (None) raises too.
json_loads(s) ==
    IF s = None THEN [ok |-> FALSE]
    ELSE WholeText(s, ParseValue(s, SkipWs(s, 1)))

\* str.find(ch, start): the 0-based index of the first ch at or after start,
\* -1 when there is none; a negative start counts from the end.
PyFind(s, ch, start) ==
    IndexFrom(s, ch, (IF start < 0 THEN Max(Len(s) + start, 0) ELSE start) + 1) - 1

\* s[a:b] for 0 <= a.
PySlice(s, a, b) == SubSeq(s, a + 1, Min(b, Len(s)))

\* A variant of strip that leaves the value as sent.
strip_nothing(s) == s

\* str.strip().
RECURSIVE RStrip(_)
RStrip(s) ==
    IF Len(s) > 0 /\ s[Len(s)] \in Whitespace
    THEN RStrip(SubSeq(s, 1, Len(s) - 1)) ELSE s
LStrip(s) == SubSeq(s, SkipWs(s, 1), Len(s))
strip(s) == LStrip(RStrip(s))


(***************************************************************************)
(* Responses.  A JSON body is a value as json_loads builds them; a message *)
(* is a str of one symbol.                                                 *)
(***************************************************************************)
ErrorBody(msg) == JDict(<<[k |-> <<"error">>, val |-> JStr(<<msg>>)]>>)
AreasBody(areas) == JDict(<<[k |-> <<"areas">>, val |-> areas]>>)
NoAreas == AreasBody(JList(<<>>))
SafetyBody(reason) ==
    JDict(<<[k |-> <<"safe">>, val |-> JBool(FALSE)],
            [k |-> <<"reason">>, val |-> JStr(<<reason>>)]>>)
NoAreaProvided == SafetyBody("No area provided")
CouldNotVerify == SafetyBody("Could not verify area safety")
CsrfError == ErrorBody("CSRF token missing or invalid")
ApiKeyError == ErrorBody("API key missing")
\* {"error": str(e)} for the exception e a handler caught.
ExceptionError == ErrorBody("<str(e)>")
\* The body Flask itself writes: an aborted request, an unhandled exception,
\* a rate limit exceeded.
FlaskErrorPage == [t |-> "html", v |-> <<>>]
\* jsonify(resp.json()): the upstream's body as it came.
RawBody(b) == [t |-> "upstream", v |-> <<b>>]

HasKey(d, k) == \E i \in 1..Len(d.v) : d.v[i].k = k
Lookup(d, k) == d.v[CHOOSE i \in 1..Len(d.v) : d.v[i].k = k].val

\* {"areas": parsed} when parsed is a list, else {"areas": []}.
AreasOrNone(parsed) ==
    IF parsed.ok /\ parsed.val.t = "list"
    THEN [status |-> 200, body |-> AreasBody(parsed.val)]
    ELSE [status |-> 200, body |-> NoAreas]

\* The except block of get_areas: the text from the first "[" to the first
\* "]" at or after it.
areas_slice(content, start, end) ==
    IF start >= 0 /\ end > start
    THEN AreasOrNone(json_loads(PySlice(content, start, end + 1)))
    ELSE [status |-> 200, body |-> NoAreas]

areas_fallback(content, start) ==
    areas_slice(content, start, PyFind(content, "]", start))

areas_direct(content, direct) ==
    IF direct.ok THEN AreasOrNone(direct)
    ELSE IF content = None
    THEN \* content.find raises in the except block: the outer handler answers
         [status |-> 500, body |-> ExceptionError]
    ELSE areas_fallback(content, PyFind(content, "[", 0))

\* get_areas from the upstream's content on: [status, body].
extract_areas(content) == areas_direct(content, json_loads(content))

safety_direct(result) ==
    IF result.ok /\ result.val.t = "dict" /\ HasKey(result.val, <<"safe">>)
    THEN [status |-> 200, body |-> result.val]
    ELSE [status |-> 200, body |-> CouldNotVerify]

\* check_area from the upstream's content on: [status, body].
extract_safety(content) == safety_direct(json_loads(content))

(***************************************************************************)
(* The contents the model may return.                                      *)
(***************************************************************************)
MaxLen == 5
ShortSymbols == {"[", "]", Quote, ",", " ", "x", "1"}

\* Here you go: ["A", "B"] Hope that helps!
ProseAroundArray ==
    <<"x", " ", "[", Quote, "x", Quote, ",", " ", Quote, "y", Quote, "]", " ", "x">>
\* I cannot help with that.
Unparsable == <<"x", " ", "x">>
\* ["A", "B"]
BareArray == <<"[", Quote, "x", Quote, ",", " ", Quote, "y", Quote, "]">>
\* Sure: [["A"], ["B"]]
ProseNestedArray ==
    <<"x", " ", "[", "[", Quote, "x", Quote, "]", ",", "[", Quote, "y", Quote, "]", "]">>
\* {"areas": ["A"]}
ObjectWithArray == <<"{", Quote, "x", Quote, ":", "[", Quote, "x", Quote, "]", "}">>
\* {"safe": true}
SafeTrue == <<"{", Quote, "safe", Quote, ":", " ", "true", "}">>
\* {"safe": false, "reason": "x"}
SafeFalse ==
    <<"{", Quote, "safe", Quote, ":", "false", ",", Quote, "y", Quote, ":", Quote, "x", Quote, "}">>
\* {"safe": "yes"}
SafeWrongType == <<"{", Quote, "safe", Quote, ":", Quote, "y", Quote, "}">>
\* {"reason": "x"}
NoSafeKey == <<"{", Quote, "y", Quote, ":", Quote, "x", Quote, "}">>
\* Sure! {"safe": true}
ProseAroundObject == <<"x", " ", "{", Quote, "safe", Quote, ":", "true", "}">>

Examples ==
    {ProseAroundArray, Unparsable, BareArray, ProseNestedArray, ObjectWithArray,
     SafeTrue, SafeFalse, SafeWrongType, NoSafeKey, ProseAroundObject}

Contents == SeqsUpTo(ShortSymbols, MaxLen) \cup Examples


(***************************************************************************)
(* Requests, upstream outcomes, responses                                  *)
(***************************************************************************)
\* What the upstream completion endpoint did with the one POST sent to it.
\* NotCalled: the handler sent none.
NotCalled == [kind |-> "not called"]
NetworkFailure == [kind |-> "network failure"]
UpstreamResponse(status, body) == [kind |-> "response", status |-> status, body |-> body]
\* Bodies of the upstream: not JSON; a JSON object with no "choices" (an error
\* payload); a completion whose first choice carries content (a str or None).
UpNotJson == [kind |-> "notjson"]
UpErrorPayload == [kind |-> "error payload"]
UpCompletion(content) == [kind |-> "completion", content |-> content]

\* requests.post(...) then resp.json()["choices"][0]["message"]["content"]:
\* ok = FALSE when any of them raises.
completion_content(up) ==
    IF up.kind = "response" /\ up.body.kind = "completion"
    THEN [ok |-> TRUE, content |-> up.body.content]
    ELSE [ok |-> FALSE]

\* The body of a POST.  An object either lacks the field the handler reads or
\* holds it; a held value that is no str (null, a number) is None.
\* Unread: the handler has not asked for the body.
Unread == [kind |-> "unread"]
BodyNotJson == [kind |-> "notjson"]
BodyNonObject == [kind |-> "nonobject"]
BodyWithout == [kind |-> "object", has |-> FALSE, val |-> <<>>]
BodyWith(val) == [kind |-> "object", has |-> TRUE, val |-> val]

\* A finished response; Pending(what): the handler stands at the call `what`,
\* whose outcome it has not been given.
Resp(status, body, calls) ==
    [pending |-> "none", status |-> status, body |-> body, calls |-> calls,
     set_cookie |-> None, minted |-> 0]
Pending(what) ==
    [pending |-> what, status |-> 0, body |-> FlaskErrorPage, calls |-> 0,
     set_cookie |-> None, minted |-> 0]

\* data.get(field, "").strip(): ok = FALSE when data has no get or the value
\* has no strip.
stripped_field(body) ==
    IF body.kind # "object" THEN [ok |-> FALSE]
    ELSE IF ~body.has THEN [ok |-> TRUE, val |-> strip(<<>>)]
    ELSE IF body.val = None THEN [ok |-> FALSE]
    ELSE [ok |-> TRUE, val |-> strip(body.val)]

(***************************************************************************)
(* The model-backed handlers: the request rq, the configured key, the      *)
(* request's body (Unread until the handler asks for it), and the          *)
(* upstream's outcome (NotCalled until the handler posts to it).           *)
(***************************************************************************)
\* The response of a handler that has made its upstream call.
Called(x) == Resp(x.status, x.body, 1)

areas_from_upstream(got) ==
    IF ~got.ok THEN Resp(500, ExceptionError, 1)
    ELSE Called(extract_areas(got.content))

areas_for(coach, up) ==
    IF ~coach.ok THEN Resp(500, FlaskErrorPage, 0)
    ELSE IF coach.val = <<>> THEN Resp(200, NoAreas, 0)
    ELSE IF up.kind = "not called" THEN Pending("requests.post")
    ELSE areas_from_upstream(completion_content(up))

\* A variant of get_areas that looks at the coach before the API key.
get_areas_coach_first(rq, key, body, up) ==
    IF ~verify_csrf(rq.cookie, rq.header).ret THEN Resp(403, CsrfError, 0)
    ELSE IF body.kind = "unread" THEN Pending("request.get_json")
    ELSE IF body.kind = "notjson" THEN Resp(400, FlaskErrorPage, 0)
    ELSE IF body.kind = "object" /\ ~body.has THEN Resp(200, NoAreas, 0)
    ELSE IF ~key THEN Resp(500, ApiKeyError, 0)
    ELSE areas_for(stripped_field(body), up)

get_areas(rq, key, body, up) ==
    IF ~verify_csrf(rq.cookie, rq.header).ret THEN Resp(403, CsrfError, 0)
    ELSE IF ~key THEN Resp(500, ApiKeyError, 0)
    ELSE IF body.kind = "unread" THEN Pending("request.get_json")
    ELSE IF body.kind = "notjson" THEN Resp(400, FlaskErrorPage, 0)
    ELSE areas_for(stripped_field(body), up)

chat(rq, key, body, up) ==
    IF ~verify_csrf(rq.cookie, rq.header).ret THEN Resp(403, CsrfError, 0)
    ELSE IF ~key THEN Resp(500, ApiKeyError, 0)
    ELSE IF body.kind = "unread" THEN Pending("request.get_json")
    ELSE IF body.kind = "notjson" THEN Resp(400, FlaskErrorPage, 0)
    ELSE IF body.kind # "object" THEN Resp(500, FlaskErrorPage, 0)
    ELSE IF up.kind = "not called" THEN Pending("requests.post")
    ELSE IF up.kind = "network failure" \/ up.body.kind = "notjson"
    THEN Resp(500, ExceptionError, 1)
    ELSE Resp(200, RawBody(up.body), 1)

safety_from_upstream(got) ==
    IF ~got.ok THEN Resp(500, ExceptionError, 1)
    ELSE Called(extract_safety(got.content))

safety_for(area, up) ==
    IF ~area.ok THEN Resp(500, FlaskErrorPage, 0)
    ELSE IF area.val = <<>> THEN Resp(200, NoAreaProvided, 0)
    ELSE IF up.kind = "not called" THEN Pending("requests.post")
    ELSE safety_from_upstream(completion_content(up))

check_area(rq, key, body, up) ==
    IF ~verify_csrf(rq.cookie, rq.header).ret THEN Resp(403, CsrfError, 0)
    ELSE IF ~key THEN Resp(500, ApiKeyError, 0)
    ELSE IF body.kind = "unread" THEN Pending("request.get_json")
    ELSE IF body.kind = "notjson" THEN Resp(400, FlaskErrorPage, 0)
    ELSE safety_for(stripped_field(body), up)

(***************************************************************************)
(* The page routes.  n is the number of tokens minted before the request.  *)
(***************************************************************************)
\* A variant of ensure_csrf_cookie that rotates the token on every response.
ensure_csrf_cookie_rotating(resp, token, cookie, n) ==
    [resp EXCEPT !.set_cookie = _new_csrf_token(n + 1), !.minted = resp.minted + 1]

\* ensure_csrf_cookie(resp, token) once n tokens are minted.
ensure_csrf_cookie(resp, token, cookie, n) ==
    LET t == PyOr(token, cookie)
    IN  IF ~Truthy(t)
        THEN [resp EXCEPT !.set_cookie = _new_csrf_token(n + 1),
                          !.minted = resp.minted + 1]
        ELSE [resp EXCEPT !.set_cookie = t]

PageBody == [t |-> "html", v |-> <<"tutor.html">>]
TokenBody(token) == JDict(<<[k |-> <<"token">>, val |-> JStr(token)]>>)

index(rq, n) == ensure_csrf_cookie(Resp(200, PageBody, 0), None, rq.cookie, n)

tutor_main(rq, n) == ensure_csrf_cookie(Resp(200, PageBody, 0), None, rq.cookie, n)

csrf_token(rq, n) ==
    LET fresh == ~Truthy(rq.cookie)
        token == IF fresh THEN _new_csrf_token(n + 1) ELSE rq.cookie
        resp == [Resp(200, TokenBody(token), 0) EXCEPT !.minted = IF fresh THEN 1 ELSE 0]
    IN  ensure_csrf_cookie(resp, token, rq.cookie, n + resp.minted)

(***************************************************************************)
(* The rate limiter: Limiter(get_remote_address, default_limits=["100 per  *)
(* hour"]) with the fixed-window strategy over MemoryStorage, one counter  *)
(* per client address and endpoint.                                        *)
(***************************************************************************)
Clients == {"c1", "c2"}
PostEndpoints == {"get_areas", "chat", "check_area"}
PageEndpoints == {"index", "tutor_main", "csrf_token"}
Endpoints == PostEndpoints \cup PageEndpoints
Keys == Clients \X Endpoints

\* A variant of LimitOf that admits one request more on /api/check_area.
LimitOf_off_by_one(e) ==
    CASE e \in {"get_areas", "chat"} -> 5
      [] e = "check_area" -> 11
      [] OTHER -> 100

\* The limit of an endpoint: the requests admitted in one window.
LimitOf(e) ==
    CASE e \in {"get_areas", "chat"} -> 5
      [] e = "check_area" -> 10
      [] OTHER -> 100

\* The length of its window, in seconds.
WindowOf(e) ==
    CASE e \in PostEndpoints -> 60
      [] OTHER -> 3600

NoEntry == [count |-> 0, ttl |-> 0]

\* MemoryStorage.incr: a key with no live window opens one.  The counter is
\* kept up to one past the limit: every larger value is rejected alike.
Incr(entry, e) ==
    IF entry.count = 0
    THEN [count |-> 1, ttl |-> WindowOf(e)]
    ELSE [count |-> Min(entry.count + 1, LimitOf(e) + 1), ttl |-> entry.ttl]

TooManyRequests == Resp(429, FlaskErrorPage, 0)

view_function(e, rq, key, body, up, n) ==
    CASE e = "get_areas" -> get_areas(rq, key, body, up)
      [] e = "chat" -> chat(rq, key, body, up)
      [] e = "check_area" -> check_area(rq, key, body, up)
      [] e = "index" -> index(rq, n)
      [] e = "tutor_main" -> tutor_main(rq, n)
      [] e = "csrf_token" -> csrf_token(rq, n)

\* A variant of dispatch in which the CSRF check of a POST route comes before
\* the limiter: a request it turns down is not counted.
dispatch_csrf_first(e, hits, rq, key, body, up, n) ==
    IF e \in PostEndpoints /\ ~verify_csrf(rq.cookie, rq.header).ret
    THEN [hit |-> FALSE, limited |-> FALSE, resp |-> Resp(403, CsrfError, 0)]
    ELSE IF hits + 1 > LimitOf(e)
    THEN [hit |-> TRUE, limited |-> TRUE, resp |-> TooManyRequests]
    ELSE [hit |-> TRUE, limited |-> FALSE,
          resp |-> view_function(e, rq, key, body, up, n)]

\* A request to a limited route: the limiter counts it before the view runs,
\* and answers 429 itself when the count passes the limit.  hits is the
\* counter before this request.
dispatch(e, hits, rq, key, body, up, n) ==
    IF hits + 1 > LimitOf(e)
    THEN [hit |-> TRUE, limited |-> TRUE, resp |-> TooManyRequests]
    ELSE [hit |-> TRUE, limited |-> FALSE,
          resp |-> view_function(e, rq, key, body, up, n)]


(***************************************************************************)
(* The server as a state machine.  One action handles one request whole:   *)
(* the limiter's count, the view, its one upstream call and the response.  *)
(* req keeps the request of the step with the limiter's storage before and *)
(* after it; a step that handles no request leaves NoRequest there.        *)
(***************************************************************************)
NoBody == [kind |-> "none"]
NoCall == [fn |-> "none"]
NoRequest == [kind |-> "none"]

\* The counter of the request's key before the request.
Hits(rq) == storage[<<rq.client, rq.endpoint>>].count

\* The record of a request handled: out is what dispatch made of it.
Handled(kind, rq, body, up, out) ==
    [kind |-> kind, client |-> rq.client, endpoint |-> rq.endpoint,
     cookie |-> rq.cookie, header |-> rq.header, body |-> body, up |-> up,
     hits |-> Hits(rq), limited |-> out.limited, resp |-> out.resp,
     before |-> storage,
     after |-> IF out.hit
               THEN [storage EXCEPT ![<<rq.client, rq.endpoint>>] = Incr(@, rq.endpoint)]
               ELSE storage]

\* The request rq with its body read and the upstream's answer in.
Answer(rq, body, up) ==
    /\ req' = Handled("POST", rq, body, up,
                      dispatch(rq.endpoint, Hits(rq), rq, OPENAI_API_KEY, body, up, minted))
    /\ storage' = req'.after

\* The request rq once its body is read: the upstream, if the handler posts
\* to it, answers with one of ups.
CallUpstream(rq, body, ups, second) ==
    \E up \in (IF second.resp.pending = "requests.post" THEN ups ELSE {NotCalled}) :
        Answer(rq, body, up)

\* The request rq: its body, if the handler reads it, is one of bodies.
ReadBody(rq, bodies, ups, first) ==
    \E body \in (IF first.resp.pending = "request.get_json" THEN bodies ELSE {Unread}) :
        CallUpstream(rq, body, ups,
            dispatch(rq.endpoint, Hits(rq), rq, OPENAI_API_KEY, body, NotCalled, minted))

Receive(rq, bodies, ups) ==
    ReadBody(rq, bodies, ups,
        dispatch(rq.endpoint, Hits(rq), rq, OPENAI_API_KEY, Unread, NotCalled, minted))

\* A POST from client c to endpoint e; its cookie and header are a pair of
\* creds.
PostRequest(c, e, creds, bodies, ups) ==
    /\ \E cr \in creds :
         Receive([client |-> c, endpoint |-> e, cookie |-> cr[1], header |-> cr[2]],
                 bodies, ups)
    /\ UNCHANGED <<jar, minted, OPENAI_API_KEY, call>>

PageRequestOf(rq) ==
    /\ req' = Handled("GET", rq, NoBody, NotCalled,
                      dispatch(rq.endpoint, Hits(rq), rq, OPENAI_API_KEY, NoBody, NotCalled, minted))
    /\ minted + req'.resp.minted <= MaxMint
    /\ storage' = req'.after
    /\ jar' = IF req'.resp.set_cookie # None
              THEN [jar EXCEPT ![rq.client] = req'.resp.set_cookie]
              ELSE jar
    /\ minted' = minted + req'.resp.minted
    /\ UNCHANGED <<OPENAI_API_KEY, call>>

\* A GET of a page route by the browser of client c, which sends the cookie
\* it holds and keeps the cookie the response sets.
PageRequest(c, e) ==
    PageRequestOf([client |-> c, endpoint |-> e, cookie |-> jar[c], header |-> None])

\* The browser of client c loses its cookie, or a script of the page (the
\* cookie is not HttpOnly) writes the value v.
ClientSetsCookie(c, v) ==
    /\ jar[c] # v
    /\ jar' = [jar EXCEPT ![c] = v]
    /\ req' = NoRequest
    /\ UNCHANGED <<storage, minted, OPENAI_API_KEY, call>>

\* d seconds pass: every window with no more than d seconds left is dropped.
Advance(d) ==
    /\ storage' = [k \in Keys |->
                     IF storage[k].count > 0 /\ storage[k].ttl > d
                     THEN [count |-> storage[k].count, ttl |-> storage[k].ttl - d]
                     ELSE NoEntry]
    /\ req' = NoRequest
    /\ UNCHANGED <<jar, minted, OPENAI_API_KEY, call>>

\* The inputs of the requests.
Credentials ==
    {<<None, None>>, <<(<<"a">>), None>>, <<None, (<<"a">>)>>, <<(<<"a">>), (<<"b">>)>>,
     <<(<<"a">>), (<<"a">>)>>, <<(<<>>), (<<>>)>>, <<(<<"U+00E9">>), (<<"U+00E9">>)>>}

FieldBodies ==
    {BodyNotJson, BodyNonObject, BodyWithout, BodyWith(None), BodyWith(<<>>),
     BodyWith(<<" ", " ">>), BodyWith(<<" ", "x", " ">>)}
BodiesOf(e) ==
    IF e = "chat" THEN {BodyNotJson, BodyNonObject, BodyWithout} ELSE FieldBodies

UpstreamStatuses == {200, 401}
UpstreamContents == {None, Unparsable, ProseAroundArray, SafeTrue, SafeWrongType}
Upstreams ==
    {NetworkFailure} \cup
    {UpstreamResponse(st, b) :
        st \in UpstreamStatuses,
        b \in {UpNotJson, UpErrorPayload} \cup {UpCompletion(x) : x \in UpstreamContents}}

CookieWrites == {None, <<>>, <<"a">>}
Durations == {60, 3600}

InitWith(keys) ==
    /\ storage = [k \in Keys |-> NoEntry]
    /\ jar = [c \in Clients |-> None]
    /\ minted = 0
    /\ OPENAI_API_KEY \in keys
    /\ req = NoRequest
    /\ call = NoCall

Init == InitWith(BOOLEAN)

Next ==
    \/ \E c \in Clients, e \in PostEndpoints :
           PostRequest(c, e, Credentials, BodiesOf(e), Upstreams)
    \/ \E c \in Clients, e \in PageEndpoints : PageRequest(c, e)
    \/ \E c \in Clients, v \in CookieWrites : ClientSetsCookie(c, v)
    \/ \E d \in Durations : Advance(d)

Spec == Init /\ [][Next]_vars

\* The counters alive with a window of w seconds.
Live(w) == {k \in Keys : storage[k].count > 0 /\ WindowOf(k[2]) = w}

\* No counter but that of key k is alive.
Alone(k) == \A k2 \in Keys : storage[k2].count > 0 => k2 = k

(***************************************************************************)
(* What the claims say of a request, in their own terms.                   *)
(***************************************************************************)
\* The limit and the window the routes are documented with.
StatedLimit(e) ==
    IF e = "get_areas" \/ e = "chat" THEN 5
    ELSE IF e = "check_area" THEN 10
    ELSE 100
StatedWindow(e) ==
    IF e = "get_areas" \/ e = "chat" \/ e = "check_area" THEN 60 ELSE 3600

\* The request carries a cookie and a header, both nonempty and equal.
DoubleSubmitOk == Truthy(req.cookie) /\ Truthy(req.header) /\ req.cookie = req.header

\* The request went through verify_csrf.
CsrfPassed == verify_csrf(req.cookie, req.header).ret

\* The field of the request's body is missing, empty, or whitespace only.
FieldMissing == req.body.kind = "object" /\ ~req.body.has
FieldEmpty == req.body.kind = "object" /\ req.body.has /\ req.body.val = <<>>
FieldBlank ==
    /\ req.body.kind = "object" /\ req.body.has /\ req.body.val # None
    /\ \A i \in 1..Len(req.body.val) : req.body.val[i] = " "

\* The upstream call failed: the network, a status outside 2xx, a body that
\* is no JSON.
UpstreamFailed ==
    \/ req.up.kind = "network failure"
    \/ /\ req.up.kind = "response"
       /\ \/ req.up.status \notin 200..299
          \/ req.up.body.kind = "notjson"

(***************************************************************************)
(* SpecPost: the POST routes with every kind of request and of upstream    *)
(* answer, under the traffic of one client that posts to one route per     *)
(* minute.                                                                 *)
(***************************************************************************)
PostTraffic ==
    \E e \in PostEndpoints :
        /\ Alone(<<"c1", e>>)
        /\ PostRequest("c1", e, Credentials, BodiesOf(e), Upstreams)

MinutePasses == Advance(60)

NextPost == PostTraffic \/ MinutePasses

SpecPost == Init /\ [][NextPost]_vars

\* C2 (as stated): on the POST routes the upstream is called only for a request
\* that passed CSRF verification and was not rate limited, every request
\* whose cookie and header fail the double-submit check gets 403 with
\* {"error": "CSRF token missing or invalid"}, and no request makes more than
\* one upstream call.
C2_CsrfFailureAlways403 ==
    req.kind = "POST" =>
        /\ req.resp.calls > 0 => (DoubleSubmitOk /\ ~req.limited)
        /\ ~DoubleSubmitOk => (req.resp.status = 403 /\ req.resp.body = CsrfError)
        /\ req.resp.calls <= 1

\* C2 (amended): on the POST routes the upstream is called only for a request
\* that passed CSRF verification and was not rate limited, every request the
\* rate limiter admits whose cookie and header fail the double-submit check
\* gets 403 with {"error": "CSRF token missing or invalid"}, and no request
\* makes more than one upstream call.
C2_UpstreamGated ==
    req.kind = "POST" =>
        /\ req.resp.calls > 0 => (DoubleSubmitOk /\ ~req.limited)
        /\ (~req.limited /\ ~DoubleSubmitOk) =>
               (req.resp.status = 403 /\ req.resp.body = CsrfError)
        /\ req.resp.calls <= 1

\* An admitted request with a cookie and a different header, turned down.
C2_Witness ==
    /\ req.kind = "POST" /\ ~req.limited
    /\ Truthy(req.cookie) /\ Truthy(req.header) /\ req.cookie # req.header
    /\ req.resp.status = 403 /\ req.resp.calls = 0

\* C5: without an API key, a POST that passed the rate limit and the CSRF
\* verification gets 500 with {"error": "API key missing"} and makes no
\* upstream call, whatever its body: the handler has not read the body.
C5_MissingKeyPrecedes ==
    (req.kind = "POST" /\ ~OPENAI_API_KEY /\ ~req.limited /\ CsrfPassed) =>
        /\ req.resp.status = 500
        /\ req.resp.body = ApiKeyError
        /\ req.resp.calls = 0
        /\ req.body = Unread

C5_Witness ==
    /\ req.kind = "POST" /\ ~OPENAI_API_KEY /\ ~req.limited /\ CsrfPassed
    /\ req.endpoint = "get_areas" /\ req.resp.status = 500

\* C6: with the API key set, an admitted and CSRF-verified POST /api/areas
\* whose coach is missing, empty or whitespace only gets 200 with exactly
\* {"areas": []}, and such a POST /api/check_area whose area is missing or
\* empty gets 200 with exactly {"safe": false, "reason": "No area provided"};
\* neither makes an upstream call.
C6_EmptyInputShortCircuits ==
    (req.kind = "POST" /\ OPENAI_API_KEY /\ ~req.limited /\ CsrfPassed) =>
        /\ (req.endpoint = "get_areas" /\ (FieldMissing \/ FieldEmpty \/ FieldBlank)) =>
               /\ req.resp.status = 200
               /\ req.resp.body = NoAreas
               /\ req.resp.calls = 0
        /\ (req.endpoint = "check_area" /\ (FieldMissing \/ FieldEmpty)) =>
               /\ req.resp.status = 200
               /\ req.resp.body = NoAreaProvided
               /\ req.resp.calls = 0

\* A whitespace-only coach answered with the empty list.
C6_Witness ==
    /\ req.kind = "POST" /\ OPENAI_API_KEY /\ ~req.limited /\ CsrfPassed
    /\ req.endpoint = "get_areas" /\ FieldBlank /\ req.body.val # <<>>
    /\ req.resp.body = NoAreas /\ req.resp.calls = 0

\* C9: on the three POST routes, a request whose upstream call ended in a
\* network failure, a status outside 2xx or a body that is no JSON gets a 500
\* response.
C9_UpstreamFailuresAreErrors ==
    (req.kind = "POST" /\ req.resp.calls = 1 /\ UpstreamFailed) =>
        req.resp.status = 500

\* C10: a request answered 403 has consumed one unit of its client's quota on
\* the route, and a request with a valid matching cookie and header that
\* arrives when the window's quota is used up is answered 429 with no
\* upstream call.
C10_RejectedRequestsConsumeQuota ==
    /\ [][(req'.kind = "POST" /\ req'.resp.status = 403) =>
            storage'[<<req'.client, req'.endpoint>>].count =
                storage[<<req'.client, req'.endpoint>>].count + 1]_vars
    /\ []((req.kind = "POST" /\ DoubleSubmitOk
             /\ req.hits >= StatedLimit(req.endpoint)) =>
            (req.resp.status = 429 /\ req.resp.calls = 0))

\* The sixth request of a minute to /api/areas, well formed, rejected.
C10_Witness ==
    /\ req.kind = "POST" /\ req.endpoint = "get_areas" /\ req.hits = 5
    /\ DoubleSubmitOk /\ CsrfPassed /\ OPENAI_API_KEY
    /\ req.resp.status = 429

(***************************************************************************)
(* SpecLimiter: the counters of two clients.  Time is observed when a      *)
(* window of the shortest length alive may end: a minute while only minute *)
(* windows are alive, an hour otherwise.                                   *)
(***************************************************************************)
MaxMinuteWindows == 2

LimiterCredentials == {<<(<<"a">>), (<<"a">>)>>}
LimiterBodies == {BodyWithout}
LimiterUpstreams == {NetworkFailure}

MinuteTraffic ==
    \E c \in Clients, e \in PostEndpoints :
        /\ Live(3600) = {}
        /\ Cardinality(Live(60) \cup {<<c, e>>}) <= MaxMinuteWindows
        /\ PostRequest(c, e, LimiterCredentials, LimiterBodies, LimiterUpstreams)

HourTraffic ==
    \E c \in Clients :
        /\ Live(60) = {}
        /\ PageRequest(c, "index")

WindowPasses ==
    \E d \in Durations :
        /\ \A k \in Keys : storage[k].count > 0 => WindowOf(k[2]) <= d
        /\ Advance(d)

NextLimiter == MinuteTraffic \/ HourTraffic \/ WindowPasses

SpecLimiter == InitWith({TRUE}) /\ [][NextLimiter]_vars

\* C3: each client has one counter per route.  A request is rejected exactly
\* when the counter of its window stands at the route's limit (5 a minute for
\* /api/areas and /api/chat, 10 a minute for /api/check_area, 100 an hour for
\* the others), with 429, before the handler reads anything or calls the
\* upstream.  A request adds one to its own counter and to no other, and
\* opens a window of the route's length when none is open.  Nothing but a
\* request to its route by its client adds to a counter.  A window keeps its
\* count while it lasts and lasts no longer than its length; when it has
\* elapsed the counter is gone.
C3_FixedWindowLimits ==
    /\ [](req.kind # "none" =>
            /\ req.limited <=> req.hits >= StatedLimit(req.endpoint)
            /\ req.limited =>
                   /\ req.resp.status = 429
                   /\ req.resp.calls = 0
                   /\ req.body \in {Unread, NoBody}
                   /\ req.resp.set_cookie = None
            /\ ~req.limited => req.resp.status # 429)
    /\ [](\A k \in Keys : storage[k].count > 0 =>
            (storage[k].ttl > 0 /\ storage[k].ttl <= StatedWindow(k[2])))
    /\ [][req'.kind # "none" =>
            /\ req'.hits = storage[<<req'.client, req'.endpoint>>].count
            /\ ~req'.limited =>
                   storage'[<<req'.client, req'.endpoint>>].count = req'.hits + 1
            /\ req'.limited =>
                   storage'[<<req'.client, req'.endpoint>>].count > StatedLimit(req'.endpoint)
            /\ storage'[<<req'.client, req'.endpoint>>].ttl =
                   IF req'.hits = 0 THEN StatedWindow(req'.endpoint)
                   ELSE storage[<<req'.client, req'.endpoint>>].ttl
            /\ \A k \in Keys \ {<<req'.client, req'.endpoint>>} :
                   storage'[k] = storage[k]]_vars
    /\ [][\A k \in Keys :
            /\ storage'[k].count > storage[k].count =>
                   /\ req'.kind # "none"
                   /\ k = <<req'.client, req'.endpoint>>
                   /\ req'.hits = storage[k].count
                   /\ storage'[k].count = storage[k].count + 1
            /\ storage'[k].count <= storage[k].count =>
                   \/ storage'[k] = storage[k]
                   \/ /\ storage'[k].count = storage[k].count
                      /\ storage'[k].ttl > 0 /\ storage'[k].ttl < storage[k].ttl
                   \/ storage'[k].count = 0]_vars

\* The eleventh request of a minute to /api/check_area rejected, while the
\* other client's window on the same route is open and not full.
C3_Witness ==
    /\ req.kind = "POST" /\ req.client = "c1" /\ req.endpoint = "check_area"
    /\ req.hits = 10 /\ req.limited /\ req.resp.status = 429
    /\ storage[<<"c2", "check_area">>].count \in 1..9

(***************************************************************************)
(* SpecPages: one browser on the page routes, one route per hour.  The     *)
(* browser may lose its cookie and a script may write it.                  *)
(***************************************************************************)
PageTraffic ==
    \E e \in PageEndpoints :
        /\ Alone(<<"c1", e>>)
        /\ PageRequest("c1", e)

CookieChanges == \E v \in CookieWrites : ClientSetsCookie("c1", v)

HourPasses == Advance(3600)

NextPages == PageTraffic \/ CookieChanges \/ HourPasses

SpecPages == InitWith({TRUE}) /\ [][NextPages]_vars

\* C4 (as stated): every response to GET /, GET /tutor and GET /api/csrf sets
\* the csrf-token cookie, to the value the request carried when it carried
\* one; a token is minted only for a request with no token cookie; and the
\* token in the body of GET /api/csrf is the cookie set on that response.
C4_TokenReusedAlways ==
    req.kind = "GET" =>
        /\ req.resp.set_cookie # None
        /\ req.cookie # None => req.resp.set_cookie = req.cookie
        /\ req.resp.minted > 0 => req.cookie = None
        /\ req.endpoint = "csrf_token" =>
               req.resp.body = TokenBody(req.resp.set_cookie)

\* C4 (amended): every response to GET /, GET /tutor and GET /api/csrf that
\* the rate limiter does not reject sets the csrf-token cookie, to the value
\* the request carried when it carried a nonempty one; one token is minted,
\* and only for a request with no token cookie or an empty one; and the
\* token in the body of GET /api/csrf is the cookie set on that response.
C4_TokenReused ==
    (req.kind = "GET" /\ ~req.limited) =>
        /\ req.resp.set_cookie # None
        /\ Truthy(req.cookie) => req.resp.set_cookie = req.cookie
        /\ req.resp.minted = (IF Truthy(req.cookie) THEN 0 ELSE 1)
        /\ req.endpoint = "csrf_token" =>
               req.resp.body = TokenBody(req.resp.set_cookie)

\* The browser sends back a token the server minted, and gets it again.
C4_Witness ==
    /\ req.kind = "GET" /\ ~req.limited /\ req.endpoint = "csrf_token"
    /\ minted = 1 /\ req.cookie = _new_csrf_token(1)
    /\ req.resp.set_cookie = req.cookie /\ req.resp.minted = 0

(***************************************************************************)
(* verify_csrf as a function of the cookie and the header.                 *)
(***************************************************************************)
InitVerify ==
    /\ storage = <<>>
    /\ jar = <<>>
    /\ minted = 0
    /\ OPENAI_API_KEY = TRUE
    /\ req = [kind |-> "none"]
    /\ \E c \in TokenValues, h \in TokenValues :
           call = [fn |-> "args", cookie |-> c, header |-> h]

CallVerify ==
    /\ call.fn = "args"
    /\ call' = [fn |-> "verify_csrf", cookie |-> call.cookie, header |-> call.header,
                out |-> verify_csrf(call.cookie, call.header)]
    /\ UNCHANGED <<storage, jar, minted, OPENAI_API_KEY, req>>

NextVerify == CallVerify

SpecVerify == InitVerify /\ [][NextVerify]_vars

\* C1: verify_csrf fails with no cookie and no header, fails with only one of
\* the two, fails with two different nonempty values, succeeds for a matching
\* cookie and header of any nonempty string, and never raises.
C1_VerifyCsrfAnyString ==
    call.fn = "verify_csrf" =>
        LET c == call.cookie
            h == call.header
            ok == call.out.ret
        IN  /\ ~call.out.raised
            /\ (c = None /\ h = None) => ~ok
            /\ ((c = None) # (h = None)) => ~ok
            /\ (Truthy(c) /\ Truthy(h) /\ c # h) => ~ok
            /\ (Truthy(c) /\ Truthy(h) /\ c = h) => ok

(***************************************************************************)
(* The two extractions as functions of the content.                        *)
(***************************************************************************)
InitExtract ==
    /\ storage = <<>>
    /\ jar = <<>>
    /\ minted = 0
    /\ OPENAI_API_KEY = TRUE
    /\ req = [kind |-> "none"]
    /\ \E c \in Contents : call = [fn |-> "args", content |-> c]

CallExtractAreas ==
    /\ call.fn = "args"
    /\ call' = [fn |-> "extract_areas", content |-> call.content,
                out |-> extract_areas(call.content)]
    /\ UNCHANGED <<storage, jar, minted, OPENAI_API_KEY, req>>

CallExtractSafety ==
    /\ call.fn = "args"
    /\ call' = [fn |-> "extract_safety", content |-> call.content,
                out |-> extract_safety(call.content)]
    /\ UNCHANGED <<storage, jar, minted, OPENAI_API_KEY, req>>

NextExtract == CallExtractAreas \/ CallExtractSafety

SpecExtract == InitExtract /\ [][NextExtract]_vars

\* The position of the "]" that closes the "[" at position i, 0 when nothing
\* closes it.  Brackets inside a string literal are text.
RECURSIVE ClosingFrom(_, _, _)
ClosingFrom(s, j, depth) ==
    IF j > Len(s) THEN 0
    ELSE IF s[j] = Quote THEN
        LET k == IndexFrom(s, Quote, j + 1)
        IN  IF k = 0 THEN 0 ELSE ClosingFrom(s, k + 1, depth)
    ELSE IF s[j] = "[" THEN ClosingFrom(s, j + 1, depth + 1)
    ELSE IF s[j] = "]" THEN
        IF depth = 1 THEN j ELSE ClosingFrom(s, j + 1, depth - 1)
    ELSE ClosingFrom(s, j + 1, depth)

\* The array the layered strategy yields: the whole content when it is an
\* array, else the text from the first "[" to its matching "]" when that is
\* an array, else the empty array.
LayeredAreas(content) ==
    LET direct == json_loads(content)
        open == IndexFrom(content, "[", 1)
        close == IF open = 0 THEN 0 ELSE ClosingFrom(content, open + 1, 1)
        sliced == IF close = 0 THEN [ok |-> FALSE]
                  ELSE json_loads(SubSeq(content, open, close))
    IN  IF direct.ok /\ direct.val.t = "list" THEN direct.val
        ELSE IF sliced.ok /\ sliced.val.t = "list" THEN sliced.val
        ELSE JList(<<>>)

\* C7: for every string content, get_areas answers 200 with the array of the
\* layered strategy: the whole content if it is a JSON array, else the text
\* from the first "[" to its matching "]" if that is a JSON array, and the
\* empty list only when neither is.
C7_LayeredExtraction ==
    call.fn = "extract_areas" =>
        /\ call.out.status = 200
        /\ call.out.body = AreasBody(LayeredAreas(call.content))

\* C8: for every string content, check_area answers 200 with the model's
\* object only when it is a JSON object whose "safe" is a boolean, and with
\* {"safe": false, "reason": "Could not verify area safety"} for anything else.
C8_SafetyFailsClosed ==
    call.fn = "extract_safety" =>
        LET r == json_loads(call.content)
            wellTyped == /\ r.ok
                         /\ r.val.t = "dict"
                         /\ HasKey(r.val, <<"safe">>)
                         /\ Lookup(r.val, <<"safe">>).t = "bool"
        IN  /\ call.out.status = 200
            /\ call.out.body = (IF wellTyped THEN r.val ELSE CouldNotVerify)

====
